---- MODULE Spec2Model ----
(***************************************************************************)
(* Model of receiver.cpp: a single-connection TCP receiver that            *)
(* accumulates the byte stream in metrics.buffer, cuts it into 24-byte     *)
(* records, decodes each record with unpack_data, computes its latency     *)
(* against the wall clock and keeps a rolling window, a running maximum    *)
(* and minimum and a full history of the delays, rendering once per        *)
(* record.                                                                 *)
(*                                                                         *)
(* Numbers.  Delays are held in whole milliseconds (the source holds them  *)
(* in doubles); the rolling average is held as the exact fraction          *)
(* num/den; a float is held as the exact dyadic value                      *)
(* (-1)^neg * man * 2^exp.                                                 *)
(***************************************************************************)
EXTENDS Integers, Sequences, FiniteSets

(***************************************************************************)
(* Program constants                                                       *)
(***************************************************************************)
MSG_SIZE == 24

DELAY_WINDOW == 5

\* sizeof(buffer) of the read call: the most one read can return
BUF_SIZE == 1024

\* std::numeric_limits<double>::infinity(), the seed of metrics.min_delay:
\* a value above every finite delay of the model
Infinity == 1000000000

(***************************************************************************)
(* Bounds of the model                                                     *)
(***************************************************************************)
\* total number of bytes the peer sends before it closes, at most
MaxBytes == 144

\* wall clock (ms since epoch) when the receiver starts
ClockStart == 1000

\* the wall clock advances by 0 or ClockStep ms between two samplings
ClockStep == 10

\* total number of bytes the peer sends in a bulk session: enough for a
\* full read on top of the longest partial record
BulkBytes == 1047

(***************************************************************************)
(* Arithmetic helpers                                                      *)
(***************************************************************************)
RECURSIVE Pow2(_)
Pow2(n) == IF n = 0 THEN 1 ELSE 2 * Pow2(n - 1)

RECURSIVE BitLen(_)
BitLen(n) == IF n = 0 THEN 0 ELSE 1 + BitLen(n \div 2)

RECURSIVE SumSeq(_)
SumSeq(s) == IF s = <<>> THEN 0 ELSE Head(s) + SumSeq(Tail(s))

MinOf(a, b) == IF b < a THEN b ELSE a

MaxOf(a, b) == IF a < b THEN b ELSE a

(***************************************************************************)
(* The wire: what the peer sends.  Three 24-byte records; the peer sends   *)
(* one of a few repeating sequences of them, back to back.                 *)
(***************************************************************************)
\* lat = 37.422f (0x4215B021), lon = -122.084f (0xC2F42B02),
\* alt = 30.0f (0x41F00000), timestamp = 1, trailing bytes 0
FrameA == << 66, 21, 176, 33,   194, 244, 43, 2,   65, 240, 0, 0,
             0, 0, 0, 0, 0, 0, 0, 1,   0, 0, 0, 0 >>

\* small integer fields, a timestamp (2 s) ahead of the receiver's clock
FrameB == << 0, 0, 0, 7,   1, 0, 0, 1,   0, 0, 1, 0,
             0, 0, 0, 0, 0, 0, 0, 2,   9, 9, 9, 9 >>

\* FrameA with other trailing bytes [20:24)
FrameC == << 66, 21, 176, 33,   194, 244, 43, 2,   65, 240, 0, 0,
             0, 0, 0, 0, 0, 0, 0, 1,   222, 173, 190, 239 >>

Patterns == << <<FrameA>>, <<FrameB>>, <<FrameA, FrameB, FrameC>> >>

\* the i-th byte (from 1) of the stream of pattern p
WireByte(p, i) ==
    LET k   == (i - 1) \div MSG_SIZE
        off == (i - 1) % MSG_SIZE
        pat == Patterns[p]
    IN  pat[(k % Len(pat)) + 1][off + 1]

\* bytes (from+1) .. (from+n) of the stream of pattern p
WireBytes(p, from, n) == [i \in 1..n |-> WireByte(p, from + i)]

(***************************************************************************)
(* unpack_data                                                             *)
(***************************************************************************)
\* ntohl(temp) assigned to a float field: the four bytes are read as a
\* big-endian unsigned 32-bit integer N and N is CONVERTED to float (nearest
\* value with a 24-bit significand, ties to even).  N = hi * 2^16 + lo is
\* never formed, so that every intermediate stays below 2^31.
UIntToFloat(b) ==
    LET hi == b[1] * 256 + b[2]
        lo == b[3] * 256 + b[4]
    IN  IF hi < 256
        THEN [neg |-> FALSE, man |-> hi * 65536 + lo, exp |-> 0]
        ELSE LET s    == BitLen(hi) - 8
                 q    == hi * Pow2(16 - s) + (lo \div Pow2(s))
                 r    == lo % Pow2(s)
                 half == Pow2(s - 1)
                 up   == r > half \/ (r = half /\ q % 2 = 1)
                 q2   == IF up THEN q + 1 ELSE q
             IN  IF q2 = Pow2(24)
                 THEN [neg |-> FALSE, man |-> Pow2(23), exp |-> s + 1]
                 ELSE [neg |-> FALSE, man |-> q2, exp |-> s]

\* timestamps of 2^18 s and more are held as 2^18 s: later than every clock
\* value of the model (so that delays and their sums stay below 2^31)
TsCap == Pow2(18)

\* be64toh(timestamp_temp) assigned to a double: the eight bytes read as a
\* big-endian unsigned integer, converted to double (exact below 2^53)
UInt64ToDouble(b) ==
    IF (\E i \in 1..5 : b[i] # 0) \/ b[6] >= 4
    THEN TsCap
    ELSE b[6] * 65536 + b[7] * 256 + b[8]

\* mutant: the altitude is copied from offset 20, the record's last 4 bytes
unpack_data_tail(data) ==
    [ lat       |-> UIntToFloat(SubSeq(data, 1, 4)),
      lon       |-> UIntToFloat(SubSeq(data, 5, 8)),
      alt       |-> UIntToFloat(SubSeq(data, 21, 24)),
      timestamp |-> UInt64ToDouble(SubSeq(data, 13, 20)) ]

\* GPSData unpack_data(const char* data): reads bytes [0:20) only
unpack_data(data) ==
    [ lat       |-> UIntToFloat(SubSeq(data, 1, 4)),
      lon       |-> UIntToFloat(SubSeq(data, 5, 8)),
      alt       |-> UIntToFloat(SubSeq(data, 9, 12)),
      timestamp |-> UInt64ToDouble(SubSeq(data, 13, 20)) ]

\* mutant: a delay below zero is floored at zero
calculate_latency_floor(sent_ts, now) == MaxOf(0, now - sent_ts * 1000)

(***************************************************************************)
(* calculate_latency: (current_ts - sent_ts) * 1000 with current_ts the    *)
(* wall clock in seconds; now is the wall clock in ms, the result is in ms *)
(***************************************************************************)
calculate_latency(sent_ts, now) == now - sent_ts * 1000

(***************************************************************************)
(* The steps of the receive loop's body                                    *)
(***************************************************************************)
\* mutant: the chunk replaces the buffer instead of being appended to it
InsertEnd_assign(buf, chunk) == chunk

\* metrics.buffer.insert(metrics.buffer.end(), buffer, buffer + valread)
InsertEnd(buf, chunk) == buf \o chunk

\* mutant: the loop test against the 20 bytes of the fields
HasFrame_fields(buf) == Len(buf) >= 20

\* mutant: the loop test with > for >=
HasFrame_gt(buf) == Len(buf) > MSG_SIZE

\* while (metrics.buffer.size() >= MSG_SIZE)
HasFrame(buf) == Len(buf) >= MSG_SIZE

\* mutant: only the 20 bytes of the fields are erased
EraseFront_fields(buf) == SubSeq(buf, 21, Len(buf))

\* metrics.buffer.erase(begin(), begin() + MSG_SIZE)
EraseFront(buf) == SubSeq(buf, MSG_SIZE + 1, Len(buf))

\* mutant: the oldest sample is dropped as soon as the window is full
PushWindow_ge(win, latency) ==
    LET w == Append(win, latency)
    IN  IF Len(w) >= DELAY_WINDOW THEN Tail(w) ELSE w

\* mutant: the newest sample is dropped instead of the oldest
PushWindow_popback(win, latency) ==
    LET w == Append(win, latency)
    IN  IF Len(w) > DELAY_WINDOW THEN SubSeq(w, 1, DELAY_WINDOW) ELSE w

\* delay_avg.push_back(latency); if (size > DELAY_WINDOW) pop_front();
PushWindow(win, latency) ==
    LET w == Append(win, latency)
    IN  IF Len(w) > DELAY_WINDOW THEN Tail(w) ELSE w

\* mutant: the sum is divided by the window's capacity, not by its size
Average_capacity(win) ==
    IF win = <<>> THEN [num |-> 0, den |-> 1]
    ELSE [num |-> SumSeq(win), den |-> DELAY_WINDOW]

\* avg_delay = accumulate(delay_avg) / delay_avg.size(), 0.0 when empty
Average(win) ==
    IF win = <<>> THEN [num |-> 0, den |-> 1]
    ELSE [num |-> SumSeq(win), den |-> Len(win)]

\* mutant: the maximum is overwritten by the latest sample
NewMax_latest(m, latency) == latency

\* metrics.max_delay = std::max(metrics.max_delay, latency)
NewMax(m, latency) == MaxOf(m, latency)

\* metrics.min_delay = std::min(metrics.min_delay, latency)
NewMin(m, latency) == MinOf(m, latency)

\* mutant: the queue shown is the one left when the drain loop has ended
QueuedMessages_drained(buf) == 0

\* display: "Queued messages: " << metrics.buffer.size() / MSG_SIZE
QueuedMessages(buf) == Len(buf) \div MSG_SIZE

\* display: "Partial message: " << metrics.buffer.size() % MSG_SIZE
PartialMessage(buf) == Len(buf) % MSG_SIZE

\* mutant: the read is not limited by sizeof(buffer)
ReadSizes_unlimited(pending) ==
    {n \in {1, 20, 24, 28, 48} : n <= pending} \cup {pending}

\* read(new_socket, buffer, sizeof(buffer)) with `pending` bytes still to
\* come from the peer: it returns between 1 and BUF_SIZE of them.  The model
\* draws the size from a few values around the record size, or takes all
\* that is pending.
ReadSizes(pending) ==
    {n \in {1, 20, 24, 28, 48} : n <= pending} \cup {MinOf(BUF_SIZE, pending)}

\* mutant: the loop goes back to accept (a reconnect)
AfterEof_reconnect == "accept"

\* where the loop goes after a read that returned <= 0: break, close, return
AfterEof == "closed"

(***************************************************************************)
(* State                                                                   *)
(***************************************************************************)
VARIABLES
    pc,              \* "accept", "read", "drain", "closed", "exit"
    pattern,         \* which stream the peer sends (index into Patterns)
    limit,           \* how many bytes the peer sends before it closes
    jitter,          \* the most the wall clock advances between two samplings
    clock,           \* wall clock, ms since epoch, at its last sampling
    valread,         \* bytes returned by the read of this iteration of the
                     \* outer loop; 0 outside the drain loop (valread is
                     \* local to the iteration)
    buffer,          \* metrics.buffer
    total_bytes,     \* metrics.total_bytes
    total_received,  \* metrics.total_received
    max_delay,       \* metrics.max_delay
    min_delay,       \* metrics.min_delay
    delay_history,   \* metrics.delay_history
    delay_avg,       \* the rolling window (local delay_avg of start_receiver)
    screen,          \* the arguments of the last call of display (<<>>: none
                     \* yet); display also prints metrics.total_bytes and
                     \* metrics.buffer.size() as they are when it is called
    renders,         \* number of calls of display so far
    fixes            \* the GPSData decoded so far, in order

vars == << pc, pattern, limit, jitter, clock, valread, buffer, total_bytes, total_received,
           max_delay, min_delay, delay_history, delay_avg, screen, renders,
           fixes >>

metricsVars == << total_received, max_delay, min_delay, delay_history >>

\* the peer and the clock's rate: fixed for the whole session
peerVars == << pattern, limit, jitter >>

\* the receiver once it listens: the globals as initialised, the locals of
\* start_receiver as declared
Started ==
    /\ pc = "accept"
    /\ clock = ClockStart
    /\ valread = 0
    /\ buffer = <<>>
    /\ total_bytes = 0
    /\ total_received = 0
    /\ max_delay = 0
    /\ min_delay = Infinity
    /\ delay_history = <<>>
    /\ delay_avg = <<>>
    /\ screen = <<>>
    /\ renders = 0
    /\ fixes = <<>>

\* a short session: any of the streams, a clock that may advance
Init ==
    /\ Started
    /\ pattern \in 1..Len(Patterns)
    /\ limit = MaxBytes
    /\ jitter = ClockStep

\* a bulk session: enough bytes for reads of BUF_SIZE, a clock that stands
\* still while they are processed
InitBulk ==
    /\ Started
    /\ pattern \in 1..Len(Patterns)
    /\ limit = BulkBytes
    /\ jitter = 0

\* accept returned a socket: the loop starts
Accept ==
    /\ pc = "accept"
    /\ pc' = "read"
    /\ UNCHANGED << peerVars, clock, valread, buffer, total_bytes, delay_avg,
                    screen, renders, fixes, metricsVars >>

\* accept failed: perror, exit(EXIT_FAILURE)
AcceptFail ==
    /\ pc = "accept"
    /\ pc' = "exit"
    /\ UNCHANGED << peerVars, clock, valread, buffer, total_bytes, delay_avg,
                    screen, renders, fixes, metricsVars >>

\* read returned n > 0 bytes: count them, append them, test the drain loop
ReadChunk ==
    /\ pc = "read"
    /\ total_bytes < limit
    /\ \E n \in ReadSizes(limit - total_bytes) :
          /\ total_bytes' = total_bytes + n
          /\ buffer' = InsertEnd(buffer, WireBytes(pattern, total_bytes, n))
          /\ valread' = IF HasFrame(buffer') THEN n ELSE 0
    /\ pc' = IF HasFrame(buffer') THEN "drain" ELSE "read"
    /\ UNCHANGED << peerVars, clock, delay_avg, screen, renders, fixes,
                    metricsVars >>

\* read returned 0 (peer closed) or a negative value (error): break
ReadEnd ==
    /\ pc = "read"
    /\ pc' = AfterEof
    /\ UNCHANGED << peerVars, clock, valread, buffer, total_bytes, delay_avg,
                    screen, renders, fixes, metricsVars >>

\* one iteration of the drain loop: decode the front record, erase it, take
\* its latency, update the window and the metrics, render; then the loop test
DrainFrame ==
    /\ pc = "drain"
    /\ \E tick \in {0, jitter} : clock' = clock + tick
    /\ LET data    == unpack_data(buffer)
           latency == calculate_latency(data.timestamp, clock')
       IN  /\ buffer' = EraseFront(buffer)
           /\ delay_avg' = PushWindow(delay_avg, latency)
           /\ total_received' = total_received + 1
           /\ max_delay' = NewMax(max_delay, latency)
           /\ min_delay' = NewMin(min_delay, latency)
           /\ delay_history' = Append(delay_history, latency)
           /\ fixes' = Append(fixes, data)
           /\ renders' = renders + 1
           /\ screen' = << [ data          |-> data,
                             current_delay |-> latency,
                             avg_delay     |-> Average(delay_avg') ] >>
    /\ pc' = IF HasFrame(buffer') THEN "drain" ELSE "read"
    /\ valread' = IF HasFrame(buffer') THEN valread ELSE 0
    /\ UNCHANGED << peerVars, total_bytes >>

Next ==
    \/ Accept
    \/ AcceptFail
    \/ ReadChunk
    \/ ReadEnd
    \/ DrainFrame

Spec == Init /\ [][Next]_vars

SpecBulk == InitBulk /\ [][Next]_vars

(***************************************************************************)
(* The records of a byte sequence decoded as the drain loop decodes one    *)
(* chunk: front record first, 24 bytes at a time, a short tail left over.  *)
(***************************************************************************)
RECURSIVE DecodeAll(_)
DecodeAll(bytes) ==
    IF Len(bytes) >= MSG_SIZE
    THEN << unpack_data(bytes) >>
         \o DecodeAll(SubSeq(bytes, MSG_SIZE + 1, Len(bytes)))
    ELSE << >>

\* all the bytes received so far, as the peer sent them
Received == WireBytes(pattern, 0, total_bytes)

(***************************************************************************)
(* C1  Chunking invariance: however the bytes were split into reads, the   *)
(* records decoded once the drain loop has finished are, in content and    *)
(* order, those decoded from the same bytes arriving as one chunk; while   *)
(* the drain loop runs they are a prefix of them.                          *)
(***************************************************************************)
C1_ChunkingInvariance ==
    LET one == DecodeAll(Received)
    IN  /\ pc \in {"read", "closed"} => fixes = one
        /\ pc = "drain" => /\ Len(fixes) < Len(one)
                           /\ fixes = SubSeq(one, 1, Len(fixes))

\* a read shorter than a record has just completed a record, after an
\* earlier record was decoded: the record was assembled from several reads
C1_Witness ==
    /\ pc = "drain"
    /\ valread < MSG_SIZE
    /\ total_received >= 1
    /\ Len(buffer) = MSG_SIZE

(***************************************************************************)
(* C2  After every read and its drain loop, the buffer holds fewer than    *)
(* 24 bytes: every complete record was extracted before the next read.     *)
(***************************************************************************)
C2_RemainderBelowFrame ==
    pc # "drain" => Len(buffer) \in 0..(MSG_SIZE - 1)

\* the longest partial tail, left after a drain that decoded a record
C2_Witness ==
    /\ pc = "read"
    /\ Len(buffer) = MSG_SIZE - 1
    /\ total_received >= 1

(***************************************************************************)
(* Helpers of the statements about the delay statistics                    *)
(***************************************************************************)
\* the last sample taken (the delay display was last called with)
LastSample == screen[1].current_delay

RECURSIVE SeqMax(_)
SeqMax(s) == IF Len(s) = 1 THEN s[1] ELSE MaxOf(s[1], SeqMax(Tail(s)))

RECURSIVE SeqMin(_)
SeqMin(s) == IF Len(s) = 1 THEN s[1] ELSE MinOf(s[1], SeqMin(Tail(s)))

\* a step that took a delay sample (one latency update)
Sampled == total_received' = total_received + 1

(***************************************************************************)
(* C3  The rolling window never holds more than 5 samples.  A sample       *)
(* inserted into a window of fewer than 5 is appended; a sample inserted   *)
(* into a full window evicts the oldest one, so that the window is then    *)
(* the 5 most recent samples in arrival order.                             *)
(***************************************************************************)
C3_WindowBounded ==
    [][ /\ Len(delay_avg) <= DELAY_WINDOW
        /\ Len(delay_avg') <= DELAY_WINDOW
        /\ Sampled =>
             /\ Len(delay_avg) < DELAY_WINDOW =>
                   delay_avg' = Append(delay_avg, LastSample')
             /\ Len(delay_avg) = DELAY_WINDOW =>
                   delay_avg' = Append(Tail(delay_avg), LastSample') ]_vars

\* a sixth sample has evicted the first one
C3_Witness ==
    /\ total_received = DELAY_WINDOW + 1
    /\ Len(delay_avg) = DELAY_WINDOW
    /\ delay_avg[1] = delay_history[2]
    /\ delay_avg[1] # delay_history[1]
    /\ delay_avg[DELAY_WINDOW] = delay_history[DELAY_WINDOW + 1]

(***************************************************************************)
(* C4  The rolling average handed to display with a record is the          *)
(* arithmetic mean of the samples in the window after that record's sample *)
(* was inserted and the oldest evicted: average * size = sum.  With the    *)
(* window <<10, 20, 30, 40, 50>> it is 30.                                 *)
(***************************************************************************)
C4_AverageIsMean ==
    screen # <<>> =>
        LET avg == screen[1].avg_delay
        IN  /\ avg.den > 0
            /\ avg.num * Len(delay_avg) = SumSeq(delay_avg) * avg.den
            /\ delay_avg = <<10, 20, 30, 40, 50>> => avg.num = 30 * avg.den

\* the window 10..50 after the eviction of an earlier sample, average 150/5
C4_Witness ==
    /\ delay_history = <<0, 10, 20, 30, 40, 50>>
    /\ delay_avg = <<10, 20, 30, 40, 50>>
    /\ screen[1].avg_delay = [num |-> 150, den |-> 5]

(***************************************************************************)
(* C5  After any non-empty sequence of updates the running maximum is the  *)
(* largest sample seen so far and the running minimum the smallest (what   *)
(* seeds of -infinity and +infinity give: after the first sample both      *)
(* equal that sample).                                                     *)
(***************************************************************************)
C5_RunningExtrema ==
    total_received > 0 =>
        /\ max_delay = SeqMax(delay_history)
        /\ min_delay = SeqMin(delay_history)

(***************************************************************************)
(* C6  Over any two latency updates in sequence the running maximum does   *)
(* not decrease and the running minimum does not increase.                 *)
(***************************************************************************)
C6_MonotoneExtrema ==
    [][ max_delay' >= max_delay /\ min_delay' <= min_delay ]_vars

\* three updates after which the maximum has risen above the first sample
\* and the minimum has fallen below it
C6_Witness ==
    /\ total_received >= 3
    /\ max_delay > delay_history[1]
    /\ min_delay < delay_history[1]

\* the i-th record (from 1) of the stream the peer sends
FrameAt(i) == WireBytes(pattern, (i - 1) * MSG_SIZE, MSG_SIZE)

(***************************************************************************)
(* C7  Starting from an empty buffer, k * 24 bytes fed in one read (the    *)
(* first read of the session; 48 bytes for k = 2) yield exactly k records, *)
(* in the order of their bytes, and leave the buffer empty: stated of the  *)
(* step that ends the drain loop of that read.                             *)
(***************************************************************************)
C7_WholeFrames ==
    [][ ( /\ pc = "drain" /\ pc' = "read"
          /\ valread = total_bytes
          /\ valread % MSG_SIZE = 0 )
        => LET k == valread \div MSG_SIZE
           IN  /\ buffer' = << >>
               /\ total_received' = k
               /\ renders' = k
               /\ fixes' = [i \in 1..k |-> unpack_data(FrameAt(i))] ]_vars

\* a first read of 48 bytes, its first record decoded, the second one next
C7_Witness ==
    /\ pc = "drain"
    /\ valread = 48
    /\ total_bytes = 48
    /\ total_received = 1
    /\ Len(buffer) = MSG_SIZE

(***************************************************************************)
(* C8  Starting from an empty buffer, 20 bytes and then 28 bytes.          *)
(***************************************************************************)
\* the first call: 20 bytes into the empty buffer decode nothing
C8_FirstCall ==
    (pc = "read" /\ total_bytes = 0 /\ total_bytes' = 20)
    => /\ pc' = "read"
       /\ fixes' = << >>
       /\ renders' = 0
       /\ Len(buffer') = 20

\* the step that ends the drain loop of the second call
C8_SecondCallEnds ==
    /\ pc = "drain" /\ pc' = "read"
    /\ valread = 28
    /\ total_bytes = 48

\* C8 as claimed: no record after the first call, ONE record after the
\* second call, and 0 bytes left
C8_OneFix ==
    [][ /\ C8_FirstCall
        /\ C8_SecondCallEnds => (Len(fixes') = 1 /\ buffer' = << >>) ]_vars

\* C8 amended: no record after the first call; after the second call TWO
\* records, the two of the 48 bytes in order, and 0 bytes left
C8_TwoFixes ==
    [][ /\ C8_FirstCall
        /\ C8_SecondCallEnds =>
             /\ fixes' = << unpack_data(FrameAt(1)), unpack_data(FrameAt(2)) >>
             /\ total_received' = 2
             /\ renders' = 2
             /\ buffer' = << >> ]_vars

\* the second call (28 bytes on top of 20) has decoded its first record
C8_Witness ==
    /\ pc = "drain"
    /\ valread = 28
    /\ total_bytes = 48
    /\ total_received = 1
    /\ Len(buffer) = MSG_SIZE

(***************************************************************************)
(* Floats as the wire format means them, and closeness to a decimal        *)
(***************************************************************************)
\* the IEEE-754 single whose bit pattern is the four bytes, big-endian:
\* sign, 8 exponent bits, 23 fraction bits (the exponent 255 of infinities
\* and NaN does not occur in the records of the model)
BitsToFloat(b) ==
    LET e == (b[1] % 128) * 2 + (b[2] \div 128)
        m == (b[2] % 128) * 65536 + b[3] * 256 + b[4]
    IN  IF e = 0
        THEN [neg |-> b[1] >= 128, man |-> m, exp |-> -149]
        ELSE [neg |-> b[1] >= 128, man |-> Pow2(23) + m, exp |-> e - 150]

\* stands for every |value| * 1000 of 2^20 * 1000 and more
MilliCap == Pow2(30)

\* the same value: the significand stripped of its trailing zero bits
RECURSIVE Normal(_)
Normal(f) ==
    IF f.man = 0 THEN [neg |-> FALSE, man |-> 0, exp |-> 0]
    ELSE IF f.man % 2 = 0
         THEN Normal([neg |-> f.neg, man |-> f.man \div 2, exp |-> f.exp + 1])
         ELSE f

SameFloat(f, g) == Normal(f) = Normal(g)

\* floor(|f| * 1000), and whether |f| * 1000 is whole; |f| * 1000 is
\* (man * 125) * 2^(exp + 3) with man < 2^24
MilliFloor(f) ==
    LET x  == f.man * 125
        e3 == f.exp + 3
    IN  IF BitLen(f.man) + f.exp > 20 THEN MilliCap
        ELSE IF e3 >= 0 THEN x * Pow2(e3)
        ELSE IF -e3 > 30 THEN 0
        ELSE x \div Pow2(-e3)

MilliWhole(f) ==
    LET x  == f.man * 125
        e3 == f.exp + 3
    IN  IF BitLen(f.man) + f.exp > 20 THEN TRUE
        ELSE IF e3 >= 0 THEN TRUE
        ELSE IF -e3 > 30 THEN x = 0
        ELSE x % Pow2(-e3) = 0

\* |f - milli / 1000| <= 1e-3, for |milli| < MilliCap - 1
Near(f, milli) ==
    LET t == IF milli < 0 THEN -milli ELSE milli
        i == MilliFloor(f)
        w == MilliWhole(f)
    IN  IF f.man = 0 THEN t <= 1
        ELSE IF f.neg = (milli < 0)
        THEN /\ i >= t - 1
             /\ (i < t + 1 \/ (i = t + 1 /\ w))
        ELSE i + t < 1 \/ (i + t = 1 /\ w)

\* the record encodes lat = 37.422, lon = -122.084, alt = 30.0 as big-endian
\* IEEE-754 singles and the timestamp 1 as a big-endian 64-bit value
EncodesSample(f) ==
    /\ Near(BitsToFloat(SubSeq(f, 1, 4)), 37422)
    /\ Near(BitsToFloat(SubSeq(f, 5, 8)), -122084)
    /\ Near(BitsToFloat(SubSeq(f, 9, 12)), 30000)
    /\ SubSeq(f, 13, 20) = << 0, 0, 0, 0, 0, 0, 0, 1 >>

(***************************************************************************)
(* C9  The record that encodes lat = 37.422, lon = -122.084, alt = 30.0    *)
(* and timestamp = 1 decodes to those four values (floats within 1e-3,     *)
(* timestamp exactly), each float field being the reinterpretation of its  *)
(* four bytes: stated of the record display was last called with.          *)
(***************************************************************************)
C9_DecodeReproduces ==
    (screen # << >> /\ EncodesSample(FrameAt(total_received)))
    => LET data == screen[1].data
           f    == FrameAt(total_received)
       IN  /\ Near(data.lat, 37422)
           /\ Near(data.lon, -122084)
           /\ Near(data.alt, 30000)
           /\ data.timestamp = 1
           /\ SameFloat(data.lat, BitsToFloat(SubSeq(f, 1, 4)))
           /\ SameFloat(data.lon, BitsToFloat(SubSeq(f, 5, 8)))
           /\ SameFloat(data.alt, BitsToFloat(SubSeq(f, 9, 12)))

(***************************************************************************)
(* C10  The loop goes accept -> read/drain (streaming) -> closed.  A read  *)
(* that returns 0 or an error closes the session and changes nothing else; *)
(* the loop is left for closed only; from closed no step is taken: no      *)
(* read, decode, update or render, and what display last showed stays.     *)
(* (A failed accept exits the process before the loop is entered.)         *)
(***************************************************************************)
C10_Order ==
    /\ pc = "accept" => pc' \in {"accept", "read", "exit"}
    /\ pc = "read"   => pc' \in {"read", "drain", "closed"}
    /\ pc = "drain"  => pc' \in {"drain", "read"}
    /\ pc = "exit"   => UNCHANGED vars
    /\ pc = "closed" => UNCHANGED vars
    /\ pc' = "closed" =>
          UNCHANGED << buffer, total_bytes, total_received, max_delay,
                       min_delay, delay_history, delay_avg, screen, renders,
                       fixes >>

C10_Lifecycle == [][C10_Order]_vars

\* closed after records were rendered, a partial record still buffered
C10_Witness ==
    /\ pc = "closed"
    /\ renders >= 2
    /\ buffer # << >>

(***************************************************************************)
(* C11  Every record taken off the buffer is decoded, sampled and rendered *)
(* exactly once and in one go: a step that extracts a record, decodes a    *)
(* fix, counts a record, records a delay or renders does all of them, for  *)
(* the record at the front of the buffer; no read is issued while a whole  *)
(* record is still buffered.  The i-th render carries the i-th decoded fix *)
(* (the fix of the i-th record of the stream) with total_received = i.     *)
(***************************************************************************)
Extracted ==
    \/ Len(buffer') < Len(buffer)
    \/ fixes' # fixes
    \/ renders' # renders
    \/ total_received' # total_received
    \/ delay_history' # delay_history
    \/ delay_avg' # delay_avg
    \/ screen' # screen

C11_Counts ==
    /\ renders = total_received
    /\ renders = Len(fixes)
    /\ renders = Len(delay_history)
    /\ (renders = 0) = (screen = << >>)
    /\ renders > 0 => screen[1].data = fixes[renders]
    /\ \A i \in 1..Len(fixes) : fixes[i] = unpack_data(FrameAt(i))

C11_Step ==
    /\ C11_Counts
    /\ Extracted =>
          /\ Len(buffer) >= MSG_SIZE
          /\ SubSeq(buffer, 1, MSG_SIZE) = FrameAt(renders + 1)
          /\ buffer = SubSeq(buffer, 1, MSG_SIZE) \o buffer'
          /\ fixes' = Append(fixes, unpack_data(SubSeq(buffer, 1, MSG_SIZE)))
          /\ renders' = renders + 1
          /\ total_received' = renders'
          /\ Len(delay_history') = renders'
          /\ screen'[1].data = fixes'[renders']
          /\ screen'[1].current_delay = delay_history'[renders']
          /\ total_bytes' = total_bytes
    /\ total_bytes' # total_bytes => Len(buffer) < MSG_SIZE

C11_OncePerFrame == [][C11_Step]_vars

\* one read brought several records: two are rendered, more are buffered
C11_Witness ==
    /\ pc = "drain"
    /\ valread = total_bytes
    /\ renders = 2
    /\ total_received = 2
    /\ screen[1].data = fixes[2]
    /\ Len(buffer) >= 2 * MSG_SIZE

(***************************************************************************)
(* C12  A delay below zero (the record's timestamp is later than the       *)
(* clock at receipt) is kept as it is: the delay shown, the value pushed   *)
(* into the window, the rolling average and the running minimum all use    *)
(* (now - timestamp) * 1000, negative.                                     *)
(***************************************************************************)
C12_Step ==
    Sampled =>
       LET d == clock' - fixes'[renders'].timestamp * 1000
       IN  /\ screen'[1].current_delay = d
           /\ delay_avg'[Len(delay_avg')] = d
           /\ delay_history'[Len(delay_history')] = d
           /\ screen'[1].avg_delay.num = SumSeq(delay_avg')
           /\ min_delay' = IF d < min_delay THEN d ELSE min_delay
           /\ d < 0 => /\ min_delay' < 0
                       /\ screen'[1].current_delay < 0

C12_NegativeKept == [][C12_Step]_vars

\* a record stamped 2 s was received at about 1 s: the delay, the window's
\* mean and the minimum are all below zero
C12_Witness ==
    /\ renders >= 2
    /\ LastSample < 0
    /\ \A i \in 1..Len(delay_avg) : delay_avg[i] < 0
    /\ screen[1].avg_delay.num < 0
    /\ min_delay = SeqMin(delay_history)
    /\ min_delay < 0

(***************************************************************************)
(* C13  A read that leaves fewer than MSG_SIZE bytes in the buffer is not  *)
(* an error: the bytes read are appended and counted, and nothing else     *)
(* changes: no fix, no render, the window, total_received, the minimum and *)
(* the maximum as they were; the loop stays in the streaming state, about  *)
(* to read again.                                                          *)
(***************************************************************************)
C13_Step ==
    (total_bytes' > total_bytes /\ Len(buffer') < MSG_SIZE) =>
        /\ pc = "read"
        /\ pc' = "read"
        /\ Len(buffer') = Len(buffer) + (total_bytes' - total_bytes)
        /\ buffer' = buffer \o WireBytes(pattern, total_bytes,
                                          total_bytes' - total_bytes)
        /\ UNCHANGED << fixes, renders, screen, delay_avg, total_received,
                        max_delay, min_delay, delay_history >>

C13_ShortRead == [][C13_Step]_vars

\* 20 bytes arrived and wait; then 3 more arrived after two whole records
C13_Witness ==
    /\ pc = "read"
    /\ Len(buffer) = 23
    /\ total_bytes = 2 * MSG_SIZE + 23
    /\ renders = 2
    /\ valread = 0

(***************************************************************************)
(* C14  Bytes are conserved: when the loop is about to read, and when a    *)
(* record is rendered, total_bytes = MSG_SIZE * total_received + the       *)
(* buffer's size.  So between reads and after the close the number of      *)
(* fixes is total_bytes / MSG_SIZE rounded down, and the 1..23 bytes left  *)
(* in the buffer at the close are never decoded.                           *)
(***************************************************************************)
C14_Conserved ==
    /\ total_bytes = MSG_SIZE * total_received + Len(buffer)
    /\ pc \in {"read", "closed"} =>
          /\ Len(buffer) = total_bytes % MSG_SIZE
          /\ total_received = total_bytes \div MSG_SIZE
          /\ Len(fixes) = total_bytes \div MSG_SIZE
    /\ buffer = WireBytes(pattern, MSG_SIZE * total_received, Len(buffer))

\* closed with 23 bytes of a sixth record buffered: five fixes
C14_Witness ==
    /\ pc = "closed"
    /\ Len(buffer) = 23
    /\ total_bytes = 5 * MSG_SIZE + 23
    /\ Len(fixes) = 5

(***************************************************************************)
(* C15  display is called inside the drain loop, so the buffer it shows is *)
(* the one left after erasing this record only.  When a read completes k   *)
(* records, the render of the j-th shows a buffer of 24 * (k - j) bytes    *)
(* plus the partial record: a queue of k - j whole records, not 0; only    *)
(* the last render of a drain shows fewer than MSG_SIZE bytes.             *)
(***************************************************************************)
\* records complete in the bytes received so far
Complete == total_bytes \div MSG_SIZE

C15_Step ==
    renders' = renders + 1 =>
        LET shown == buffer'
            left  == Complete - total_received'      \* k - j
        IN  /\ Len(shown) = Len(buffer) - MSG_SIZE
            /\ QueuedMessages(shown) = left
            /\ PartialMessage(shown) = total_bytes % MSG_SIZE
            /\ Len(shown) = MSG_SIZE * left + (total_bytes % MSG_SIZE)
            /\ (left > 0) = (Len(shown) >= MSG_SIZE)
            /\ (left > 0) = (pc' = "drain")
            /\ (left = 0) = (pc' = "read")

C15_QueueShown == [][C15_Step]_vars

\* one read brought at least five whole records: after the render of the
\* second, three or more whole records are shown as queued
C15_Witness ==
    /\ pc = "drain"
    /\ valread = total_bytes
    /\ valread >= 5 * MSG_SIZE
    /\ renders = 2
    /\ QueuedMessages(buffer) = Complete - 2
    /\ QueuedMessages(buffer) >= 3

(***************************************************************************)
(* C16  The buffer is bounded: a read appends 1..BUF_SIZE bytes to a       *)
(* buffer of at most MSG_SIZE - 1 bytes, so the buffer never holds more    *)
(* than 1047 bytes; the drain after a read takes at most 43 extractions,   *)
(* each removing exactly the MSG_SIZE bytes at the front, and ends when    *)
(* fewer than MSG_SIZE bytes are left.                                     *)
(***************************************************************************)
MaxOccupancy == BUF_SIZE + MSG_SIZE - 1

MaxExtractions == MaxOccupancy \div MSG_SIZE

C16_Step ==
    /\ MaxOccupancy = 1047
    /\ MaxExtractions = 43
    /\ Len(buffer) <= MaxOccupancy
    /\ total_bytes' # total_bytes =>
          /\ total_bytes' - total_bytes \in 1..BUF_SIZE
          /\ Len(buffer) <= MSG_SIZE - 1
          /\ Len(buffer') = Len(buffer) + (total_bytes' - total_bytes)
          /\ Len(buffer') <= MaxOccupancy
    /\ pc = "drain" =>
          \* the extractions still to come: at most 43 less those done
          \* since the read, one fewer after each step, none at the end
          LET todo  == Len(buffer) \div MSG_SIZE
              since == total_received - ((total_bytes - valread) \div MSG_SIZE)
          IN  /\ todo >= 1
              /\ since + todo <= MaxExtractions
              /\ buffer' = SubSeq(buffer, MSG_SIZE + 1, Len(buffer))
              /\ Len(buffer') = Len(buffer) - MSG_SIZE
              /\ Len(buffer') \div MSG_SIZE = todo - 1
              /\ (pc' = "read") = (todo = 1)
              /\ (pc' = "drain") = (todo > 1)
              /\ total_bytes' = total_bytes

C16_BufferBounded == [][C16_Step]_vars

\* 1024 bytes were read on top of 23: 42 records are extracted, the 43rd
\* and 15 bytes of the next are buffered
C16_Witness ==
    /\ pc = "drain"
    /\ valread = BUF_SIZE
    /\ total_bytes = BUF_SIZE + MSG_SIZE - 1
    /\ total_received = 42
    /\ Len(buffer) = MSG_SIZE + 15

(***************************************************************************)
(* C17  Decoding reads bytes [0:20) of a record only: records that differ  *)
(* in bytes [20:24) only decode to the same fix, whatever those bytes are, *)
(* and what is shown depends on the fix and the clock only.  Each          *)
(* extraction still consumes all MSG_SIZE bytes: the buffer resumes at the *)
(* next record's first byte, the 4 trailing bytes are dropped.             *)
(***************************************************************************)
Fields(f) == SubSeq(f, 1, 20)

Trailers == { <<0, 0, 0, 0>>, <<9, 9, 9, 9>>, <<222, 173, 190, 239>>,
              <<255, 255, 255, 255>> }

C17_TrailerIgnored ==
    /\ \A i \in 1..Len(fixes) :
          /\ \A t \in Trailers :
                unpack_data(Fields(FrameAt(i)) \o t) = fixes[i]
          /\ \A j \in 1..Len(fixes) :
                Fields(FrameAt(i)) = Fields(FrameAt(j)) => fixes[i] = fixes[j]
    /\ renders > 0 =>
          /\ screen[1].data = fixes[renders]
          /\ screen[1].current_delay = clock - fixes[renders].timestamp * 1000
    /\ buffer = WireBytes(pattern, MSG_SIZE * Len(fixes), Len(buffer))

\* the first and the third record of the stream differ in the trailer only
\* and gave the same fix; all 72 bytes are consumed
C17_Witness ==
    /\ Len(fixes) = 3
    /\ FrameAt(1) # FrameAt(3)
    /\ Fields(FrameAt(1)) = Fields(FrameAt(3))
    /\ fixes[1] = fixes[3]
    /\ total_bytes = 3 * MSG_SIZE
    /\ buffer = << >>

(***************************************************************************)
(* C18  metrics.delay_history is a second history of the delays: every     *)
(* decoded record appends to it and nothing is ever removed from it, so    *)
(* its length is total_received; the window holds min(total_received,      *)
(* DELAY_WINDOW) delays, and they are the last that many of the history.   *)
(***************************************************************************)
LastOf(h, k) == SubSeq(h, Len(h) - k + 1, Len(h))

C18_Step ==
    /\ Len(delay_history) = total_received
    /\ Len(delay_avg) = MinOf(total_received, DELAY_WINDOW)
    /\ delay_avg = LastOf(delay_history, MinOf(total_received, DELAY_WINDOW))
    /\ Len(delay_history') >= Len(delay_history)
    /\ SubSeq(delay_history', 1, Len(delay_history)) = delay_history
    /\ Sampled => /\ Len(delay_history') = Len(delay_history) + 1
                  /\ Len(delay_history') = total_received'
                  /\ delay_avg' = LastOf(delay_history',
                                         MinOf(total_received', DELAY_WINDOW))

C18_SecondHistory == [][C18_Step]_vars

\* six records: the history holds six delays, the window its last five,
\* and the delay the window has dropped differs from the one it starts with
C18_Witness ==
    /\ total_received = 6
    /\ Len(delay_history) = 6
    /\ Len(delay_avg) = 5
    /\ delay_avg = SubSeq(delay_history, 2, 6)
    /\ delay_history[1] # delay_avg[1]

====
